---- MODULE Spec2Model ----
(***************************************************************************)
(* Model of the sbrk()-based allocator (mmalloc / mcalloc / mrelloc /      *)
(* mfree) with its intrusive singly linked block list.                     *)
(*                                                                         *)
(* Memory is modelled as raw cells: a BlockHeader at address b is the      *)
(* three cells b+OffSize, b+OffFree, b+OffNext, exactly as the C code      *)
(* reads and writes them through pointers.  size_t and pointers are        *)
(* WordBits wide, so all size and address arithmetic is taken modulo W.    *)
(***************************************************************************)
EXTENDS Integers, Sequences, FiniteSets, TLC

(* ----------------------------- bounds ---------------------------------- *)

\* width of size_t and of a pointer in the model (64 in the LP64 build)
WordBits == 9
\* the growth primitive refuses to move the break beyond HeapBase + 8*MaxHeapWords
MaxHeapWords == 13
\* the caller holds at most this many pointers at a time
MaxLive == 2

(* ------------------------ program constants ---------------------------- *)

ALIGN == 8
\* sizeof(BlockHeader) and the offsets of its fields (LP64 layout)
HeaderSize == 24
OffSize == 0
OffFree == 8
OffNext == 16
\* bytes of one memory cell (sizeof(size_t), sizeof(void* ))
WordSize == 8
NULL == 0

W == 2 ^ WordBits
Wrap(x) == x % W

\* first address returned by sbrk: the initial program break
HeapBase == 128
HeapLimit == HeapBase + WordSize * MaxHeapWords
\* addresses below NullTop are never mapped (the page around NULL)
NullTop == HeapBase \div 2
\* the value (void* )-1 that sbrk returns on failure
SbrkFailed == W - 1

(* --------------------------- raw memory -------------------------------- *)
(* A machine state s is a record                                           *)
(*   mem   : cells that hold a nonzero word (address -> value)             *)
(*   head  : the static list head                                          *)
(*   brk   : the current program break                                     *)
(*   oob   : some access was outside [HeapBase, brk)  (undefined)          *)
(*   wild  : some access was below HeapBase, in the program's own data     *)
(*   fault : some access was in the unmapped page around NULL              *)
(*   hang  : a list walk entered a cycle it can never leave                *)
(*   grew  : "none", "ok" or "denied": what sbrk was asked and answered    *)
(*   junk  : the word an undefined read below the heap yields              *)
(***************************************************************************)

InHeap(s, a) == HeapBase <= a /\ a + WordSize <= s.brk
InArena(a) == HeapBase <= a /\ a + WordSize <= W

Touch(s, a) ==
    [s EXCEPT !.fault = @ \/ (a < NullTop),
              !.oob = @ \/ ~InHeap(s, a),
              !.wild = @ \/ ~InArena(a)]

Load(s, a) ==
    IF InArena(a)
    THEN (IF a \in DOMAIN s.mem THEN s.mem[a] ELSE 0)
    ELSE s.junk

Store(s, a, v) ==
    [s EXCEPT !.fault = @ \/ (a < NullTop),
              !.oob = @ \/ ~InHeap(s, a),
              !.wild = @ \/ ~InArena(a),
              !.mem = IF ~InArena(a) THEN @
                      ELSE IF v = 0 THEN [x \in (DOMAIN @) \ {a} |-> @[x]]
                      ELSE (a :> v) @@ @]

\* address of a field of the header at b
Fld(b, off) == Wrap(b + off)

\* a result: the machine state and the value returned
Ret(s, v) == [st |-> s, ret |-> v]
\* a call that never returns: a list walk that cannot end
Hang(s) == [st |-> [s EXCEPT !.hang = TRUE], ret |-> NULL]

(* ------------------------- the allocator ------------------------------- *)

\* (size + (align - 1)) & ~(align - 1), align a power of two, in size_t
align_up(size, align) ==
    LET t == Wrap(size + (align - 1))
    IN  t - (t % align)

\* the libc growth primitive: intptr_t increment, returns the old break
sbrk(s, increment, ok) ==
    LET inc == IF increment >= W \div 2 THEN increment - W ELSE increment
        nb == s.brk + inc
    IN  IF ~ok \/ nb > HeapLimit \/ nb < HeapBase
        THEN Ret([s EXCEPT !.grew = "denied"], SbrkFailed)
        ELSE Ret([s EXCEPT !.brk = nb, !.grew = "ok"], s.brk)

\* A loop of the C code is one step operator, applied until the loop is left
\* (done) or is known never to end (stuck): a walk that changes nothing and
\* meets a header again, a coalesce iteration whose next block is the block
\* itself.  A walk of more iterations than the address space holds cells
\* never ends either.
MaxWalk == W \div WordSize

\* while (curr->next != NULL) curr = curr->next;
append_step(c) ==
    LET s1 == Touch(c.st, Fld(c.curr, OffNext))
        nx == Load(c.st, Fld(c.curr, OffNext))
    IN  IF nx = NULL THEN [c EXCEPT !.st = s1, !.done = TRUE]
        ELSE IF nx \in c.seen THEN [c EXCEPT !.st = s1, !.stuck = TRUE]
        ELSE [c EXCEPT !.st = s1, !.curr = nx, !.seen = @ \cup {nx}]

RECURSIVE append_walk(_, _)
append_walk(c, n) ==
    IF c.done \/ c.stuck \/ n = 0 THEN c
    ELSE append_walk(append_step(c), n - 1)

\* curr->next = block, at the tail the walk w found
append_tail(w, block) ==
    IF ~w.done THEN Hang(w.st)
    ELSE Ret(Store(w.st, Fld(w.curr, OffNext), block), block)

\* if (!head) head = block; else walk to the tail and link
append_link(s, block) ==
    IF s.head = NULL THEN Ret([s EXCEPT !.head = block], block)
    ELSE append_tail(append_walk([st |-> s, curr |-> s.head, done |-> FALSE,
                                  stuck |-> FALSE, seen |-> {s.head}],
                                 MaxWalk), block)

append(s, mem_ptr, size) ==
    append_link(Store(Store(Store(s, Fld(mem_ptr, OffSize), size),
                            Fld(mem_ptr, OffFree), 0),
                      Fld(mem_ptr, OffNext), NULL), mem_ptr)

\* new_block->next = block->next;
split_copy_next(s, block, new_block) ==
    Store(Touch(s, Fld(block, OffNext)), Fld(new_block, OffNext),
          Load(s, Fld(block, OffNext)))

\* the branch of split_block that carves new_block out of block
split_carve(s, block, asize, leftover, new_block) ==
    Ret(Store(Store(Store(
            split_copy_next(
                Store(Store(s, Fld(new_block, OffSize), leftover),
                      Fld(new_block, OffFree), 1),
                block, new_block),
            Fld(block, OffSize), asize),
            Fld(block, OffFree), 0),
            Fld(block, OffNext), new_block),
        block)

\* the test of leftover in split_block
split_leftover(s, block, asize, leftover) ==
    IF leftover <= HeaderSize + ALIGN
    THEN Ret(Store(s, Fld(block, OffFree), 0), block)
    ELSE split_carve(s, block, asize, leftover,
                     Wrap(block + HeaderSize + asize))

split_block(s, block, size) ==
    split_leftover(Touch(s, Fld(block, OffSize)), block, align_up(size, ALIGN),
                   Wrap(Load(s, Fld(block, OffSize)) - align_up(size, ALIGN)
                        - HeaderSize))

\* the walk of find_free returns what split_block returned
find_free_split(c, sp) == [c EXCEPT !.st = sp.st, !.done = TRUE, !.ret = sp.ret]

\* find_free_at with curr->free = 0 written as soon as a free block is met,
\* before its size is tested: a block too small stays marked used
find_free_at_claims(c, s, isfree, csize) ==
    IF isfree /\ csize >= c.size
    THEN [c EXCEPT !.st = Store(s, Fld(c.curr, OffFree), 0), !.done = TRUE,
                   !.ret = c.curr]
    ELSE [c EXCEPT !.st = IF isfree THEN Store(s, Fld(c.curr, OffFree), 0)
                          ELSE Touch(s, Fld(c.curr, OffNext)),
                   !.curr = Load(s, Fld(c.curr, OffNext)),
                   !.seen = @ \cup {c.curr}]

\* the body of the while loop of find_free at block c.curr: s is the state
\* after the reads of curr->free and, when free, of curr->size
find_free_at(c, s, isfree, csize) ==
    IF isfree /\ csize = c.size
    THEN [c EXCEPT !.st = s, !.done = TRUE, !.ret = c.curr]
    ELSE IF isfree /\ csize >= Wrap(c.size + HeaderSize + ALIGN)
    THEN find_free_split(c, split_block(s, c.curr, c.size))
    ELSE IF isfree /\ csize >= c.size
    THEN [c EXCEPT !.st = s, !.done = TRUE, !.ret = c.curr]
    ELSE [c EXCEPT !.st = Touch(s, Fld(c.curr, OffNext)),
                   !.curr = Load(s, Fld(c.curr, OffNext)),
                   !.seen = @ \cup {c.curr}]

\* one iteration of the while loop of find_free
find_free_step(c) ==
    IF c.curr = NULL THEN [c EXCEPT !.done = TRUE, !.ret = NULL]
    ELSE IF c.curr \in c.seen THEN [c EXCEPT !.stuck = TRUE]
    ELSE find_free_at(c,
            IF Load(c.st, Fld(c.curr, OffFree)) # 0
            THEN Touch(Touch(c.st, Fld(c.curr, OffFree)), Fld(c.curr, OffSize))
            ELSE Touch(c.st, Fld(c.curr, OffFree)),
            Load(c.st, Fld(c.curr, OffFree)) # 0,
            Load(c.st, Fld(c.curr, OffSize)))

RECURSIVE find_free_walk(_, _)
find_free_walk(c, n) ==
    IF c.done \/ c.stuck \/ n = 0 THEN c
    ELSE find_free_walk(find_free_step(c), n - 1)

\* what find_free returns after the walk w
find_free_end(w) == IF w.done THEN Ret(w.st, w.ret) ELSE Hang(w.st)

\* find_free with the walk started at head->next: the first block of the
\* list is never examined
find_free_skips_head(s, size) ==
    find_free_end(find_free_walk([st |-> s,
                                  curr |-> IF s.head = NULL THEN NULL
                                           ELSE Load(s, Fld(s.head, OffNext)),
                                  size |-> size, done |-> FALSE, ret |-> NULL,
                                  stuck |-> FALSE, seen |-> {}], MaxWalk))

find_free(s, size) ==
    find_free_end(find_free_walk([st |-> s, curr |-> s.head, size |-> size,
                                  done |-> FALSE, ret |-> NULL,
                                  stuck |-> FALSE, seen |-> {}], MaxWalk))

\* curr->next = curr->next->next, nx being curr->next
coalesce_unlink(s, curr, nx) ==
    Store(Touch(s, Fld(nx, OffNext)), Fld(curr, OffNext),
          Load(s, Fld(nx, OffNext)))

\* curr->size += sizeof(BlockHeader) + curr->next->size, then the unlink
coalesce_merge(s, curr, nx) ==
    coalesce_unlink(
        Store(Touch(s, Fld(nx, OffSize)), Fld(curr, OffSize),
              Wrap(Load(s, Fld(curr, OffSize)) + HeaderSize
                   + Load(s, Fld(nx, OffSize)))),
        curr, nx)

\* coalesce_pair with the unlink left out: the size of curr takes in the next
\* block, which stays in the list, and the walk moves on to it
coalesce_pair_keeps_link(c, s, nx, both) ==
    IF nx = c.curr THEN [c EXCEPT !.st = s, !.stuck = TRUE]
    ELSE IF nx \in c.seen THEN [c EXCEPT !.st = s, !.stuck = TRUE]
    ELSE [c EXCEPT !.st = IF both
                          THEN Store(Touch(s, Fld(nx, OffSize)),
                                     Fld(c.curr, OffSize),
                                     Wrap(Load(s, Fld(c.curr, OffSize)) + HeaderSize
                                          + Load(s, Fld(nx, OffSize))))
                          ELSE s,
                   !.curr = nx, !.seen = @ \cup {nx}]

\* the if of the loop body: s is the state after the reads of the condition
coalesce_pair(c, s, nx, both) ==
    IF nx = c.curr THEN [c EXCEPT !.st = s, !.stuck = TRUE]
    ELSE IF both THEN [c EXCEPT !.st = coalesce_merge(s, c.curr, nx),
                                !.seen = {}]
    ELSE IF nx \in c.seen THEN [c EXCEPT !.st = s, !.stuck = TRUE]
    ELSE [c EXCEPT !.st = s, !.curr = nx, !.seen = @ \cup {nx}]

\* the loop test curr->next, then the condition curr->free && curr->next->free
coalesce_at(c, nx) ==
    IF nx = NULL
    THEN [c EXCEPT !.st = Touch(c.st, Fld(c.curr, OffNext)), !.done = TRUE]
    ELSE coalesce_pair(c,
            IF Load(c.st, Fld(c.curr, OffFree)) # 0
            THEN Touch(Touch(Touch(c.st, Fld(c.curr, OffNext)),
                             Fld(c.curr, OffFree)), Fld(nx, OffFree))
            ELSE Touch(Touch(c.st, Fld(c.curr, OffNext)), Fld(c.curr, OffFree)),
            nx,
            Load(c.st, Fld(c.curr, OffFree)) # 0
                /\ Load(c.st, Fld(nx, OffFree)) # 0)

\* one iteration of the while loop of coalesce
coalesce_step(c) ==
    IF c.curr = NULL THEN [c EXCEPT !.done = TRUE]
    ELSE coalesce_at(c, Load(c.st, Fld(c.curr, OffNext)))

RECURSIVE coalesce_walk(_, _)
coalesce_walk(c, n) ==
    IF c.done \/ c.stuck \/ n = 0 THEN c
    ELSE coalesce_walk(coalesce_step(c), n - 1)

\* coalesce returns after the walk w, or never
coalesce_end(w) == IF w.done THEN w.st ELSE [w.st EXCEPT !.hang = TRUE]

coalesce(s) ==
    coalesce_end(coalesce_walk([st |-> s, curr |-> s.head, done |-> FALSE,
                                stuck |-> FALSE, seen |-> {s.head}], MaxWalk))

mfree(s, ptr) ==
    IF ptr = NULL THEN s
    ELSE coalesce(Store(s, Fld(Wrap(ptr - HeaderSize), OffFree), 1))

\* return (block + 1), block being what r returned
payload(r) == Ret(r.st, Wrap(r.ret + HeaderSize))

\* mmalloc after sbrk answered g
mmalloc_grow(g, asize) ==
    IF g.ret = SbrkFailed THEN Ret(g.st, NULL)
    ELSE payload(append(g.st, g.ret, asize))

\* mmalloc after find_free answered f
mmalloc_found(f, asize, ok) ==
    IF f.st.hang THEN f
    ELSE IF f.ret # NULL
    THEN Ret(Store(f.st, Fld(f.ret, OffFree), 0), Wrap(f.ret + HeaderSize))
    ELSE mmalloc_grow(sbrk(f.st, Wrap(HeaderSize + asize), ok), asize)

\* mmalloc without the test of size against 0: a request of no bytes is
\* searched for and placed like any other
mmalloc_zero_searches(s, size, ok) ==
    mmalloc_found(find_free(s, align_up(size, ALIGN)),
                  align_up(size, ALIGN), ok)

mmalloc(s, size, ok) ==
    IF size = 0 THEN Ret(s, NULL)
    ELSE mmalloc_found(find_free(s, align_up(size, ALIGN)),
                       align_up(size, ALIGN), ok)

\* the values a word can take in its k lowest bytes (the bytes at the k lowest
\* addresses of the cell, little endian)
ByteSpan(k) == IF 8 * k >= WordBits THEN W ELSE 2 ^ (8 * k)

\* the cells the n bytes from ptr on cover wholly, and the cell they end in
FullCells(ptr, n) == {Wrap(ptr + WordSize * k) : k \in 0 .. (n \div WordSize) - 1}
LastCell(ptr, n) == Wrap(ptr + WordSize * (n \div WordSize))

\* the cell at a after memset(ptr, 0, n), v being what it held
memset0_cell(ptr, n, a, v) ==
    IF a \in FullCells(ptr, n) THEN 0
    ELSE IF a = LastCell(ptr, n) THEN v - (v % ByteSpan(n % WordSize))
    ELSE v

\* memset(ptr, 0, n)
memset0(s, ptr, n) ==
    LET cells == FullCells(ptr, n)
                    \cup (IF n % WordSize = 0 THEN {} ELSE {LastCell(ptr, n)})
        m == s.mem
    IN  [s EXCEPT !.mem = [x \in {a \in DOMAIN m :
                                    memset0_cell(ptr, n, a, m[a]) # 0}
                              |-> memset0_cell(ptr, n, x, m[x])],
                  !.oob = @ \/ (\E a \in cells : ~InHeap(s, a)),
                  !.wild = @ \/ (\E a \in cells : ~InArena(a)),
                  !.fault = @ \/ (\E a \in cells : a < NullTop)]

\* mcalloc after mmalloc answered r
mcalloc_clear(r, total_size) ==
    IF r.st.hang \/ r.ret = NULL THEN Ret(r.st, NULL)
    ELSE Ret(memset0(r.st, r.ret, total_size), r.ret)

\* mcalloc with memset(ptr, 0, size): the bytes of one element are cleared,
\* not those of all num elements
mcalloc_clears_one(s, num, size, ok) ==
    mcalloc_clear(mmalloc(s, Wrap(num * size), ok), size)

mcalloc(s, num, size, ok) ==
    mcalloc_clear(mmalloc(s, Wrap(num * size), ok), Wrap(num * size))

\* the else branch of mrelloc after mmalloc answered n
mrelloc_move(n, ptr) ==
    IF n.st.hang THEN n
    ELSE Ret(mfree(n.st, ptr), Wrap(n.ret + HeaderSize))

\* mrelloc after coalesce left c: undef is the value the caller finds when
\* control reaches the end of the function without a return statement
mrelloc_merged(c, header, size, undef) ==
    IF c.hang THEN Ret(c, NULL)
    ELSE IF Load(c, Fld(header, OffSize)) > size
    THEN split_block(Touch(c, Fld(header, OffSize)), header, size)
    ELSE Ret(Touch(c, Fld(header, OffSize)), undef)

\* if (header->size < size && header->next->free) ... else ...
\* s is the state after the read of header->next->free, nx is header->next
mrelloc_grow(s, ptr, header, size, nx, ok, undef) ==
    IF Load(s, Fld(nx, OffFree)) # 0
    THEN mrelloc_merged(coalesce(s), header, size, undef)
    ELSE mrelloc_move(mmalloc(s, size, ok), ptr)

\* the tests of header->size against size
mrelloc_resize(s, ptr, header, size, hsize, ok, undef) ==
    IF hsize = size THEN Ret(s, Wrap(header + HeaderSize))
    ELSE IF hsize > size THEN split_block(s, header, size)
    ELSE mrelloc_grow(Touch(Touch(s, Fld(header, OffNext)),
                            Fld(Load(s, Fld(header, OffNext)), OffFree)),
                      ptr, header, size, Load(s, Fld(header, OffNext)),
                      ok, undef)

mrelloc(s, ptr, size, ok, undef) ==
    IF ptr = NULL THEN mmalloc(s, size, ok)
    ELSE IF size = 0 THEN Ret(mfree(s, ptr), NULL)
    ELSE mrelloc_resize(Touch(s, Fld(Wrap(ptr - HeaderSize), OffSize)), ptr,
                        Wrap(ptr - HeaderSize), size,
                        Load(s, Fld(Wrap(ptr - HeaderSize), OffSize)), ok, undef)

(* ------------------------- the caller's view --------------------------- *)
(* mem, head, brk : the memory cells, the list head, the program break     *)
(* live   : the pointers the caller holds, each with the size it asked for *)
(* status : "ok", or "crashed" / "hung" once a call never returned         *)
(* last   : the last call: its arguments, its result and what it met       *)
(* nops   : the number of calls made so far                                *)
(***************************************************************************)

VARIABLES mem, head, brk, live, status, last, nops

vars == <<mem, head, brk, live, status, last, nops>>

\* a run makes at most MaxOps calls
MaxOps == 5

\* request sizes: zero, unaligned, aligned, and the largest size_t values
Sizes == {0, 1, 72, W - 8, W - 1}
\* mcalloc arguments <<num, size>>
CallocArgs == {<<3, 3>>, <<W \div 8 + 1, 8>>}
\* words an undefined read below the heap may yield
JunkVals == {0, W - 8}
\* the marker for "no value was returned"
NoRet == -1

M(j) == [mem |-> mem, head |-> head, brk |-> brk, oob |-> FALSE,
         wild |-> FALSE, fault |-> FALSE, hang |-> FALSE, grew |-> "none",
         junk |-> j]

\* the record of a call: its arguments and result, what sbrk answered, whether
\* an access left the heap, and what held before the call:
\*   hsize, req : the payload size of the block of ptr and the size ptr was
\*                obtained for
\*   pfreed, preq : the pointer the call before released and the size it was
\*                obtained for (NULL when the call before released nothing)
\*   pfit : the block of pfreed was the first free block of the list and held
\*          at least the aligned preq bytes
\*   runs, merged : for a call of coalesce, the number of calls of coalesce
\*          in a row up to this one, and the blocks the first of them merged
NoOp == [op |-> "init", ptr |-> NULL, size |-> 0, num |-> 0, ret |-> NULL,
         grew |-> "none", oob |-> FALSE, hsize |-> 0, req |-> 0,
         pfreed |-> NULL, preq |-> 0, pfit |-> FALSE, runs |-> 0,
         merged |-> 0]

Init ==
    /\ mem = <<>>
    /\ head = NULL
    /\ brk = HeapBase
    /\ live = <<>>
    /\ status = "ok"
    /\ last = NoOp
    /\ nops = 0

\* the pointers the caller holds after the call: released drops one,
\* a non-NULL result adds one, recorded with the size it was obtained for
Holds(released, ret, size) ==
    LET kept == [p \in (DOMAIN live) \ released |-> live[p]]
    IN  IF ret = NULL THEN kept ELSE (ret :> size) @@ kept

\* the call returns (or the process dies or hangs in it)
Finish(s, rec, newlive, crash) ==
    /\ Cardinality(DOMAIN newlive) <= MaxLive
    /\ nops' = nops + 1
    /\ last' = [rec EXCEPT !.grew = s.grew, !.oob = s.oob]
    /\ IF s.fault \/ (s.oob /\ crash)
       THEN /\ status' = "crashed"
            /\ UNCHANGED <<mem, head, brk, live>>
       ELSE IF s.hang
       THEN /\ status' = "hung"
            /\ UNCHANGED <<mem, head, brk, live>>
       ELSE /\ status' = "ok"
            /\ mem' = s.mem
            /\ head' = s.head
            /\ brk' = s.brk
            /\ live' = newlive

\* the choices that can matter to a call: a denial by sbrk only when sbrk is
\* called, the outcome of undefined accesses only when one happens
Oks(s) == IF s.grew = "none" THEN {TRUE} ELSE BOOLEAN
Junks(s) == IF s.wild THEN JunkVals ELSE {0}
Crashes(s) == IF s.oob THEN BOOLEAN ELSE {FALSE}

\* the blocks of the list in list order, as far as the walk from the head
\* meets new addresses
RECURSIVE ListFrom(_, _, _)
ListFrom(s, curr, acc) ==
    IF curr = NULL \/ (\E i \in 1..Len(acc) : acc[i] = curr) THEN acc
    ELSE ListFrom(s, Load(s, Fld(curr, OffNext)), Append(acc, curr))

Blocks(s) == ListFrom(s, s.head, <<>>)
BSize(s, b) == Load(s, Fld(b, OffSize))
BFree(s, b) == Load(s, Fld(b, OffFree)) # 0

\* b is a block of the list, it is free and every block in front of it is used
FirstFree(s, b) ==
    LET l == Blocks(s)
    IN  \E i \in 1..Len(l) :
           /\ l[i] = b
           /\ BFree(s, b)
           /\ \A k \in 1..(i - 1) : ~BFree(s, l[k])

\* the record of the call name(p, size) / name(num, size) that returned ret
Call(name, p, size, num, ret) ==
    LET s == M(0)
        freed == IF last.op = "mfree" THEN last.ptr ELSE NULL
        fb == Wrap(freed - HeaderSize)
    IN  [NoOp EXCEPT !.op = name, !.ptr = p, !.size = size, !.num = num,
                     !.ret = ret,
                     !.hsize = IF p = NULL THEN 0
                               ELSE BSize(s, Wrap(p - HeaderSize)),
                     !.req = IF p \in DOMAIN live THEN live[p] ELSE 0,
                     !.pfreed = freed,
                     !.preq = IF freed = NULL THEN 0 ELSE last.req,
                     !.pfit = /\ freed # NULL
                              /\ FirstFree(s, fb)
                              /\ BSize(s, fb) >= align_up(last.req, ALIGN)]

Malloc ==
    /\ status = "ok"
    /\ nops < MaxOps
    /\ \E size \in Sizes :
       \E r0 \in {mmalloc(M(0), size, TRUE).st} :
       \E ok \in Oks(r0), j \in Junks(r0), crash \in Crashes(r0) :
       \E r \in {mmalloc(M(j), size, ok)} :
          Finish(r.st, Call("mmalloc", NULL, size, 0, r.ret),
                 Holds({}, r.ret, size), crash)

Calloc ==
    /\ status = "ok"
    /\ nops < MaxOps
    /\ \E a \in CallocArgs :
       \E r0 \in {mcalloc(M(0), a[1], a[2], TRUE).st} :
       \E ok \in Oks(r0), j \in Junks(r0), crash \in Crashes(r0) :
       \E r \in {mcalloc(M(j), a[1], a[2], ok)} :
          Finish(r.st, Call("mcalloc", NULL, a[2], a[1], r.ret),
                 Holds({}, r.ret, Wrap(a[1] * a[2])), crash)

Free ==
    /\ status = "ok"
    /\ nops < MaxOps
    /\ \E p \in (DOMAIN live) \cup {NULL} :
       \E r0 \in {mfree(M(0), p)} :
       \E j \in Junks(r0), crash \in Crashes(r0) :
       \E r \in {mfree(M(j), p)} :
          Finish(r, Call("mfree", p, 0, 0, NULL), Holds({p}, NULL, 0), crash)

\* what the caller may find as the result when mrelloc returns no value:
\* whatever the return register holds
Undefs(r, p) ==
    IF r.ret # NoRet THEN {r.ret}
    ELSE {NULL, p, Load(r.st, Fld(Wrap(p - HeaderSize), OffSize))}

Realloc ==
    /\ status = "ok"
    /\ nops < MaxOps
    /\ \E p \in (DOMAIN live) \cup {NULL}, size \in Sizes :
       \E r0 \in {mrelloc(M(0), p, size, TRUE, NoRet).st} :
       \E ok \in Oks(r0), j \in Junks(r0), crash \in Crashes(r0) :
       \E r \in {mrelloc(M(j), p, size, ok, NoRet)} :
       \E ret \in Undefs(r, p) :
          \* a failed resize leaves the caller its old pointer
          Finish(r.st, Call("mrelloc", p, size, 0, ret),
                 Holds(IF ret = NULL /\ size # 0 THEN {} ELSE {p}, ret, size),
                 crash)

Next == Malloc \/ Calloc \/ Free \/ Realloc

Spec == Init /\ [][Next]_vars

\* a run of the test driver's kind: only mmalloc and mfree are called
NextAllocRelease == Malloc \/ Free

SpecAllocRelease == Init /\ [][NextAllocRelease]_vars

\* the cell at a after the caller has set every bit of the n bytes from ptr on
fill_cell(ptr, n, a, v) ==
    IF a \in FullCells(ptr, n) THEN W - 1
    ELSE IF a = LastCell(ptr, n)
    THEN v - (v % ByteSpan(n % WordSize)) + (ByteSpan(n % WordSize) - 1)
    ELSE v

\* the caller writes the n bytes it asked for through the pointer it was given
fill(s, ptr, n) ==
    LET cells == FullCells(ptr, n)
                    \cup (IF n % WordSize = 0 THEN {} ELSE {LastCell(ptr, n)})
        m == s.mem
        old(a) == IF a \in DOMAIN m THEN m[a] ELSE 0
    IN  [s EXCEPT !.mem = [x \in {a \in (DOMAIN m) \cup {c \in cells : InArena(c)} :
                                    fill_cell(ptr, n, a, old(a)) # 0}
                              |-> fill_cell(ptr, n, x, old(x))],
                  !.oob = @ \/ (\E a \in cells : ~InHeap(s, a)),
                  !.wild = @ \/ (\E a \in cells : ~InArena(a)),
                  !.fault = @ \/ (\E a \in cells : a < NullTop)]

Fill ==
    /\ status = "ok"
    /\ nops < MaxOps
    /\ \E p \in DOMAIN live :
       \E r \in {fill(M(0), p, live[p])} :
       \E crash \in Crashes(r) :
          Finish(r, Call("fill", p, live[p], 0, NULL), live, crash)

\* a run may end with up to MaxRuns calls of coalesce beyond its MaxOps calls
MaxRuns == 2

\* a direct call of coalesce(), which dm_alloc.h exports
Coalesce ==
    /\ status = "ok"
    /\ nops < MaxOps + MaxRuns
    /\ \E r0 \in {coalesce(M(0))} :
       \E j \in Junks(r0), crash \in Crashes(r0) :
       \E r \in {coalesce(M(j))} :
          Finish(r, [Call("coalesce", NULL, 0, 0, NULL) EXCEPT
                        !.runs = IF last.op = "coalesce" THEN last.runs + 1
                                 ELSE 1,
                        !.merged = IF last.op = "coalesce" THEN last.merged
                                   ELSE Len(Blocks(M(0))) - Len(Blocks(r))],
                 live, crash)

\* mmalloc, mfree and mrelloc, which build, split and merge the blocks, and
\* coalesce called on its own
NextCoalesce == Malloc \/ Free \/ Realloc \/ Coalesce

SpecCoalesce == Init /\ [][NextCoalesce]_vars

\* a caller that never resizes: mmalloc, mcalloc and mfree only
NextNoResize == Malloc \/ Calloc \/ Free

SpecNoResize == Init /\ [][NextNoResize]_vars

\* a caller that uses its memory: mmalloc, mcalloc and mfree, and writes to
\* the payloads it holds
NextWritten == Malloc \/ Calloc \/ Free \/ Fill

SpecWritten == Init /\ [][NextWritten]_vars

(* ----------------------------- properties ------------------------------ *)

\* the heap as the last call left it, and its list
Cur == M(0)
List == Blocks(Cur)
\* the end of the footprint [b, b + header size + payload size) of block b
End(b) == b + HeaderSize + BSize(Cur, b)
Used(b) == ~BFree(Cur, b)
\* the last call returned to its caller
Returned(ops) == status = "ok" /\ last.op \in ops

\* C1: no two used blocks of the list have overlapping footprints
NoOverlap ==
    status = "ok" =>
        \A i, j \in 1..Len(List) :
            (i # j /\ Used(List[i]) /\ Used(List[j]))
                => (End(List[i]) <= List[j] \/ End(List[j]) <= List[i])

\* the bytes the footprints of the blocks of l take together
RECURSIVE FootSum(_)
FootSum(l) ==
    IF l = <<>> THEN 0
    ELSE HeaderSize + BSize(Cur, Head(l)) + FootSum(Tail(l))

\* C2: the blocks of the list lie in strictly increasing address order, each
\* block ends where its next block starts, and the footprints sum to the
\* bytes obtained from sbrk
Tiling ==
    status = "ok" =>
        /\ \A i \in 1..(Len(List) - 1) :
              List[i] < List[i + 1] /\ End(List[i]) = List[i + 1]
        /\ FootSum(List) = brk - HeapBase

\* C3: a non-NULL pointer returned by mmalloc, mcalloc or mrelloc is the
\* payload address of exactly one block of the list, and that block is used
ReturnedIsUsedPayload ==
    (Returned({"mmalloc", "mcalloc", "mrelloc"}) /\ last.ret # NULL) =>
        \E i \in 1..Len(List) :
            /\ Wrap(List[i] + HeaderSize) = last.ret
            /\ Used(List[i])
            /\ \A k \in 1..Len(List) :
                  Wrap(List[k] + HeaderSize) = last.ret => k = i

\* C4: the block a successful mmalloc(size) returns holds at least size bytes,
\* for every size from 1 to the largest size_t
Capacity ==
    (Returned({"mmalloc"}) /\ last.ret # NULL) =>
        BSize(Cur, Wrap(last.ret - HeaderSize)) >= last.size

\* C5: mrelloc(ptr, size) with 0 < size < payload size of ptr's block
\* returns ptr
ShrinkStable ==
    (Returned({"mrelloc"}) /\ last.ptr # NULL /\ last.size > 0
        /\ last.hsize > last.size) => last.ret = last.ptr

\* C6: every payload address mmalloc returns is a multiple of ALIGN, and the
\* payload size of every block of the list is a multiple of ALIGN
Aligned ==
    status = "ok" =>
        /\ (last.op = "mmalloc" /\ last.ret # NULL) => last.ret % ALIGN = 0
        /\ \A i \in 1..Len(List) : BSize(Cur, List[i]) % ALIGN = 0

\* C7: once every pointer mmalloc returned has been released, after calls of
\* mmalloc and mfree only, the list is one free block that spans all the
\* bytes obtained from sbrk
FullReleaseCollapse ==
    (status = "ok" /\ head # NULL /\ DOMAIN live = {}) =>
        /\ Len(List) = 1
        /\ BFree(Cur, List[1])
        /\ List[1] = HeapBase
        /\ BSize(Cur, List[1]) = brk - HeapBase - HeaderSize

\* the last call was mmalloc(s) right after mfree(p), s being the size p was
\* obtained for
ReusedAfterFree ==
    Returned({"mmalloc"}) /\ last.pfreed # NULL /\ last.size = last.preq

\* C8 (as stated): mfree(p) followed at once by mmalloc of the size p was
\* obtained for returns p again
FreeThenReuse == ReusedAfterFree => last.ret = last.pfreed

\* C8 (amended): mfree(p) followed at once by mmalloc of the size p was
\* obtained for returns p again when, after the release, p's block is the
\* first free block of the list and holds at least the aligned size
FreeThenReuseFirstFit ==
    (ReusedAfterFree /\ last.pfit) => last.ret = last.pfreed

\* C8 witness: p was released behind another block and handed out again
FreeThenReuseWitness ==
    /\ ReusedAfterFree
    /\ last.pfit
    /\ last.ret = last.pfreed
    /\ Len(List) >= 2
    /\ List[1] # Wrap(last.ret - HeaderSize)

\* C9: every call returns: no walk of the list runs forever
Terminates == status # "hung"

\* C10: when sbrk denies the extension, mmalloc and mcalloc return NULL and
\* leave head and every cell of every block as they were
OomLeavesList ==
    [][(last'.op \in {"mmalloc", "mcalloc"} /\ last'.grew = "denied"
            /\ status' = "ok")
        => (last'.ret = NULL /\ mem' = mem /\ head' = head /\ brk' = brk)]_vars

\* C10 witness: sbrk denied a call of mmalloc on a heap that holds blocks
OomWitness ==
    /\ Returned({"mmalloc", "mcalloc"})
    /\ last.grew = "denied"
    /\ last.ret = NULL
    /\ Len(List) >= 2
    /\ \E i \in 1..Len(List) : BFree(Cur, List[i])

\* C11: when mrelloc(ptr, size) takes the allocate-new path and sbrk denies
\* the extension, mrelloc returns NULL
ReallocOomReturnsNull ==
    (Returned({"mrelloc"}) /\ last.ptr # NULL /\ last.size # 0
        /\ last.grew = "denied") => last.ret = NULL

\* C12: mmalloc(0) returns NULL, does not call sbrk and leaves head, the
\* break and every cell of every block as they were
ZeroSizeIsNoOp ==
    [][(last'.op = "mmalloc" /\ last'.size = 0)
        => (status' = "ok" /\ last'.ret = NULL /\ last'.grew = "none"
            /\ mem' = mem /\ head' = head /\ brk' = brk)]_vars

\* C12 witness: mmalloc(0) returned on a list that holds a free block
ZeroSizeWitness ==
    /\ Returned({"mmalloc"})
    /\ last.size = 0
    /\ last.ret = NULL
    /\ \E i \in 1..Len(List) : BFree(Cur, List[i])

\* the word at offset 8k of the payload the last call returned
PayloadWord(k) == Load(Cur, Wrap(last.ret + WordSize * k))
\* the bytes mcalloc was asked for, in size_t
AskedBytes == Wrap(last.num * last.size)

CoalesceIdempotent ==
    [][(status = "ok" /\ last.op = "coalesce" /\ last'.op = "coalesce"
            /\ nops' = nops + 1)
        => (status' # "hung"
            /\ (status' = "ok" => (mem' = mem /\ head' = head /\ brk' = brk)))]_vars

\* C14 witness: coalesce ran twice in a row and its first run merged blocks
CoalesceTwiceWitness ==
    /\ Returned({"coalesce"})
    /\ last.runs >= 2
    /\ last.merged > 0

\* the free blocks of the list that hold at least n bytes, before the call
Fits(n) == {List[i] : i \in {k \in 1..Len(List) : BFree(Cur, List[k])
                                                    /\ BSize(Cur, List[k]) >= n}}
\* the lowest address of the set of addresses S
Lowest(S) == CHOOSE b \in S : \A c \in S : b <= c
\* the heap as the call now returning leaves it
After == [Cur EXCEPT !.mem = mem', !.head = head', !.brk = brk']

\* C15: mmalloc(size) returns the payload of the lowest-address free block
\* that holds at least the aligned size and does not call sbrk when there is
\* such a block; otherwise it calls sbrk and, when sbrk grants, returns the
\* payload of a new block appended at the tail of the list
FirstFitGrowOnMiss ==
    [][(last'.op = "mmalloc" /\ last'.size > 0 /\ nops' = nops + 1
            /\ status' = "ok")
        => IF Fits(align_up(last'.size, ALIGN)) # {}
           THEN /\ last'.grew = "none"
                /\ last'.ret = Wrap(Lowest(Fits(align_up(last'.size, ALIGN)))
                                    + HeaderSize)
           ELSE /\ last'.grew # "none"
                /\ last'.grew = "ok" =>
                      /\ last'.ret = Wrap(brk + HeaderSize)
                      /\ Blocks(After) = Append(List, brk)]_vars

\* C16: when mmalloc(size) reuses a free block, the block it hands out holds at
\* most sizeof(BlockHeader) + ALIGN - 1 bytes more than the aligned size
FragmentationBound ==
    (Returned({"mmalloc"}) /\ last.ret # NULL /\ last.grew = "none") =>
        BSize(Cur, Wrap(last.ret - HeaderSize))
            <= align_up(last.size, ALIGN) + HeaderSize + ALIGN - 1

\* the header of the block the call now returning was given, and its next
\* block before the call
Hdr == Wrap(last'.ptr - HeaderSize)
HdrNext == Load(Cur, Fld(Hdr, OffNext))

\* C17: mrelloc(ptr, size) with size above the payload size of ptr's block,
\* the next block free and the two blocks with the header between them
\* holding size bytes, returns ptr and leaves ptr's block used with a payload
\* size of at least size
GrowInPlace ==
    [][(last'.op = "mrelloc" /\ last'.ptr # NULL /\ nops' = nops + 1
            /\ status' = "ok"
            /\ BSize(Cur, Hdr) < last'.size
            /\ HdrNext # NULL /\ BFree(Cur, HdrNext)
            /\ BSize(Cur, Hdr) + HeaderSize + BSize(Cur, HdrNext) >= last'.size)
        => (last'.ret = last'.ptr
            /\ ~BFree(After, Hdr)
            /\ BSize(After, Hdr) >= last'.size)]_vars

\* C18: mrelloc(ptr, size) with size above the payload size of ptr's block,
\* the block being the tail of the list, reads no block behind the tail: it
\* returns, and has released the old block
GrowAtTail ==
    [][(last'.op = "mrelloc" /\ last'.ptr # NULL /\ nops' = nops + 1
            /\ BSize(Cur, Hdr) < last'.size /\ HdrNext = NULL)
        => (status' = "ok" /\ ~last'.oob /\ BFree(After, Hdr))]_vars

\* C19: after a call of mmalloc, mcalloc or mfree has returned, no two
\* consecutive blocks of the list are both free
NoFreeNeighbours ==
    status = "ok" =>
        \A i \in 1..(Len(List) - 1) :
            ~(BFree(Cur, List[i]) /\ BFree(Cur, List[i + 1]))

\* b is a used block of the list of heap s
UsedBlock(s, b) ==
    /\ \E i \in 1..Len(Blocks(s)) : Blocks(s)[i] = b
    /\ ~BFree(s, b)

\* C20: a call of mmalloc, mcalloc or mfree leaves every used block other than
\* the one it releases a used block of the list with the same payload size:
\* every pointer live before the call designates the same used block after it
FrameOfUsedBlocks ==
    [][(last'.op \in {"mmalloc", "mcalloc", "mfree"} /\ nops' = nops + 1
            /\ status' = "ok")
        => \A p \in DOMAIN live :
              (p # last'.ptr /\ UsedBlock(Cur, Wrap(p - HeaderSize)))
                  => /\ UsedBlock(After, Wrap(p - HeaderSize))
                     /\ BSize(After, Wrap(p - HeaderSize))
                            = BSize(Cur, Wrap(p - HeaderSize))]_vars

====
